---- MODULE Spec2Model ----
(***************************************************************************)
(* Model of the inject chain element (pkg/kernel/networkservice/inject)    *)
(* and of the namespace switcher (pkg/kernel/nsswitch).                    *)
(*                                                                         *)
(* Goroutines run Request and Close over a pool of OS threads.  The        *)
(* current network namespace is a property of the OS thread.  A goroutine  *)
(* that has not called runtime.LockOSThread may be rescheduled onto        *)
(* another thread between any two calls, and a thread that is not locked   *)
(* may run any goroutine.                                                  *)
(***************************************************************************)
EXTENDS Integers, FiniteSets, Sequences, TLC

\* How many Request/Close calls the chain issues in all.
MaxOps == 2
\* The same, for runs long enough to hold a Request, its Close and one
\* more operation.
MaxRoundTripOps == 3
\* The same, for runs in which the callers cancel their contexts.
MaxCancelOps == 1
\* How many Request/Close calls reach the ipaddress element in all.
MaxIpOps == 2

Goroutines == {"g1", "g2"}
Threads    == {"t1", "t2"}

\* The forwarder's namespace and the client's namespace.
HomeNS     == "H"
ClientNS   == "T"
Namespaces == {HomeNS, ClientNS}

\* netns.NsHandle(-1): a closed or absent handle.
NoHandle == "none"
\* A nil *nsswitch.NSSwitch.
NilSwitch == "nil"

\* The kernel interfaces, by name; ifNS gives the namespace each lives in.
Interfaces == {"veth0", "veth1"}
MissingIf  == "veth-missing"

\* The mechanism parameters a connection may carry.
GoodURL == "/var/run/netns/client1"
BadURL  == "/var/run/netns/absent"
OwnIf   == [g1 |-> "veth0", g2 |-> "veth1"]
\* What GetNetNSURL and GetInterfaceName give for a mechanism that lacks the
\* parameter, or for a connection without a kernel mechanism.
EmptyURL == ""
EmptyIf  == ""

VARIABLES
    gor,      \* gor[g]: the frame of goroutine g (position, locals, history)
    conn,     \* conn[g]: the connection goroutine g serves (NetNSURL, interface name)
    curNS,    \* curNS[t]: the network namespace OS thread t is in
    ifNS,     \* ifNS[i]: the network namespace interface i is a member of
    crashed,  \* an unrecovered panic has terminated the process
    nops,     \* the number of Request/Close calls issued so far
    ipf,      \* ipf[g]: the frame of goroutine g in the ipaddress element
    ipn       \* the number of Request/Close calls the ipaddress element got

injectVars == <<gor, conn, curNS, ifNS, crashed, nops>>
ipVars     == <<ipf, ipn>>
vars       == <<gor, conn, curNS, ifNS, crashed, nops, ipf, ipn>>

\* netns.GetFromPath: the namespace a path names, NoHandle when it names none.
GetFromPath(url) == IF url = GoodURL THEN ClientNS ELSE NoHandle

\* The record of the latest NSSwitch.SwitchTo call of a goroutine: its
\* argument, the namespace its thread was in, whether netns.Get succeeded,
\* the netns.Set calls it issued, and what it returned.
NoSwitchCall == [target |-> NoHandle, before |-> NoHandle, getOk |-> FALSE,
                 sets |-> 0, setArg |-> NoHandle, ret |-> "none"]

\* The locals of a goroutine that runs no operation.
IdleFrame ==
    [pc        |-> "idle",      \* position in the code
     op        |-> "none",      \* "Request" or "Close"
     thr       |-> "none",      \* the OS thread the goroutine last ran on
     locked    |-> FALSE,       \* runtime.LockOSThread is in force
     nsSwitch  |-> NilSwitch,   \* nsSwitch.NetNSHandle, or NilSwitch
     tgt       |-> NoHandle,    \* clientNetNSHandle
     caller    |-> "none",      \* which call of moveInterfaceToAnotherNamespace
     link      |-> "none",      \* the link LinkByName returned
     merr      |-> "nil",       \* the pending return value of the move
     result    |-> "none",      \* what the operation returned to its caller
     \* history of the running operation
     home      |-> NoHandle,    \* the namespace NewNSSwitch captured
     homeRel   |-> 0,           \* releases of the home handle
     tgtRel    |-> 0,           \* releases of the client handle
     useAfterRel |-> FALSE,     \* a released handle was passed to the OS
     openFailed  |-> FALSE,     \* GetFromPath failed
     cancelled |-> FALSE,       \* the caller has cancelled ctx
     switches  |-> 0,           \* SwitchTo calls
     windows   |-> 0,           \* moves whose first SwitchTo succeeded
     restores  |-> 0,           \* restoring SwitchTo calls
     lookups   |-> 0,           \* LinkByName calls
     setns     |-> 0,           \* LinkSetNsFd calls
     moved     |-> 0,           \* interfaces whose membership changed
     dsCalls   |-> 0,           \* downstream invocations
     dsFailed  |-> FALSE,       \* the downstream call failed
     failedAt  |-> "none",      \* where the latest move failed
     restoreFailed |-> FALSE,   \* the restoring SwitchTo failed
     sw        |-> NoSwitchCall,
     prevOk    |-> "none"]      \* the previous operation, when it succeeded

\* The locals of a goroutine that runs no operation of the ipaddress element.
IpIdleFrame ==
    [pc           |-> "idle",   \* position in the code
     op           |-> "none",   \* "Request" or "Close"
     result       |-> "none",   \* the error returned to the caller
     retConn      |-> "none",   \* the connection returned: "nil", or "ds" for
                                \* the one the downstream element returned
     \* history of the running operation
     dsReq        |-> 0,        \* downstream Request calls
     creates      |-> 0,        \* create calls
     closes       |-> 0,        \* calls of the element's own Close
     dsCloses     |-> 0,        \* downstream Close calls
     dsFailed     |-> FALSE,    \* the downstream Request failed
     createFailed |-> FALSE,    \* create failed
     closeFailed  |-> FALSE,    \* the downstream Close failed
     established  |-> FALSE]    \* the downstream element holds the connection

Init ==
    /\ ipf = [g \in Goroutines |-> IpIdleFrame]
    /\ ipn = 0
    /\ gor = [g \in Goroutines |-> IdleFrame]
    /\ conn \in {c \in [Goroutines -> [url : {GoodURL, BadURL, EmptyURL},
                                         ifName : Interfaces \cup {MissingIf, EmptyIf}]] :
                   \A g \in Goroutines : c[g].ifName \in {OwnIf[g], MissingIf, EmptyIf}}
    /\ curNS = [t \in Threads |-> HomeNS]
    /\ ifNS = [i \in Interfaces |-> HomeNS]
    /\ crashed = FALSE
    /\ nops = 0

\* Where the interface called name lives; "none" when no interface has that name.
WhereIs(name) == IF name \in Interfaces THEN ifNS[name] ELSE "none"

\* The process is alive, and no result is on its way to a caller: a return
\* hands the result over before anything else is observed.
Running == ~crashed /\ \A g \in Goroutines : gor[g].pc # "returned"

\* The Go scheduler may run goroutine g on thread t: a goroutine that holds a
\* thread lock stays on its thread, any other goroutine runs on any thread
\* that no other goroutine has locked for itself.
CanRunOn(g, t) ==
    /\ Running
    /\ gor[g].locked => t = gor[g].thr
    /\ \A h \in Goroutines \ {g} : ~(gor[h].locked /\ gor[h].thr = t)

\* netns.NsHandle.Equal: two handles name the same namespace.
Equal(a, b) == a = b

\* The arguments fromNetNS and toNetNS of the running move: server.go:60
\* (home to client), server.go:67 and server.go:91 (client to home).
FromNS(f) == IF f.caller = "fwd" THEN f.nsSwitch ELSE f.tgt
ToNS(f)   == IF f.caller = "fwd" THEN f.tgt ELSE f.nsSwitch

\* NSSwitch.Close, ns_switch.go:61-68.  A nil receiver makes s.NetNSHandle a
\* nil-pointer dereference: a run-time panic.
NSSwitchClose(f) ==
    IF f.nsSwitch = NilSwitch
    THEN [f EXCEPT !.pc = "crashed", !.result = "panic"]
    ELSE [f EXCEPT !.homeRel = IF f.nsSwitch # NoHandle THEN @ + 1 ELSE @,
                   !.nsSwitch = NoHandle]

\* A deferred function that forgets the client handle.
RunDeferredSwitchOnly(f) == NSSwitchClose(f)

\* The function deferred by Request (server.go:54-57) and by Close (85-88).
RunDeferred(f) ==
    LET f1 == NSSwitchClose(f)
    IN  [f1 EXCEPT !.tgtRel = IF f1.tgt # NoHandle THEN @ + 1 ELSE @,
                   !.tgt = NoHandle]

\* A return statement of Request or Close with error e: the deferred function
\* runs, then the caller has the result.
Return(f, e) == RunDeferred([f EXCEPT !.result = e, !.pc = "returned"])

\* A failed restore reported as an ordinary error.
RestoreFailedAsError(f) ==
    RunDeferred([f EXCEPT !.result = "SwitchErr", !.pc = "returned",
                          !.locked = FALSE, !.restoreFailed = TRUE])

\* The panic of server.go:124: the goroutine unwinds through the function
\* deferred by Request or Close, and the process terminates.
RestoreFailed(f) ==
    RunDeferred([f EXCEPT !.result = "panic", !.pc = "crashed",
                          !.locked = FALSE, !.restoreFailed = TRUE])

\* A Request that reports the failure of its compensating move.
AfterMoveSurfacing(f, e) ==
    IF e # "nil" THEN Return(f, e)
    ELSE IF f.caller = "comp" THEN Return(f, "DownstreamErr")
    ELSE [f EXCEPT !.pc = "next"]

\* A caller that goes on to the downstream element whatever the move returned.
AfterMoveIgnoring(f, e) ==
    IF f.caller = "comp"
    THEN Return(f, "DownstreamErr")
    ELSE [f EXCEPT !.pc = "next"]

\* What the caller does with the value e returned by
\* moveInterfaceToAnotherNamespace: server.go:60-65, 67-73 and 91-96.
AfterMove(f, e) ==
    IF f.caller = "comp"
    THEN Return(f, "DownstreamErr")
    ELSE IF e # "nil" THEN Return(f, e)
    ELSE [f EXCEPT !.pc = "next"]

\* A move that defers the restore before it looks at the error of its first
\* SwitchTo.
SwitchFailedDeferred(f) ==
    [f EXCEPT !.failedAt = "switch", !.merr = "SwitchErr", !.pc = "mvRestore"]

\* moveInterfaceToAnotherNamespace, server.go:119-121: the first SwitchTo
\* failed, and the move returns its error at once.
SwitchFailed(f) == AfterMove([f EXCEPT !.failedAt = "switch"], "SwitchErr")

\* NSSwitch.SwitchTo, ns_switch.go:47-53, on thread t: LockOSThread, then
\* netns.Get, which reads the namespace ns of the thread, or fails.
SwitchToLock(f, target, t, ns, getOk) ==
    [f EXCEPT !.thr = t,
              !.locked = getOk,
              !.switches = @ + 1,
              !.useAfterRel = @ \/ target = NoHandle,
              !.sw = [target |-> target, before |-> ns, getOk |-> getOk,
                      sets |-> 0, setArg |-> NoHandle,
                      ret |-> IF getOk THEN "none" ELSE "SwitchErr"]]

\* A SwitchTo that calls netns.Set without comparing the handles.
SwitchToSetAlways(f, setOk) ==
    [f EXCEPT !.locked = FALSE,
              !.sw.sets = 1, !.sw.setArg = f.sw.target,
              !.sw.ret = IF setOk THEN "nil" ELSE "SwitchErr"]

\* NSSwitch.SwitchTo, ns_switch.go:54-57 and the deferred UnlockOSThread:
\* netns.Set is called only when the handles differ; setOk is its outcome.
SwitchToSet(f, setOk) ==
    IF Equal(f.sw.before, f.sw.target)
    THEN [f EXCEPT !.locked = FALSE, !.sw.ret = "nil"]
    ELSE [f EXCEPT !.locked = FALSE,
                   !.sw.sets = 1, !.sw.setArg = f.sw.target,
                   !.sw.ret = IF setOk THEN "nil" ELSE "SwitchErr"]

\* The namespaces of the threads after the SwitchTo that produced frame f1.
AfterSet(f1) ==
    IF f1.sw.sets = 1 /\ f1.sw.ret = "nil"
    THEN [curNS EXCEPT ![f1.thr] = f1.sw.setArg]
    ELSE curNS

\* Goroutine g takes a step that leaves its frame as f.
Step(g, f) == gor' = [gor EXCEPT ![g] = f]

\* The chain calls Request (server.go:44) or Close (server.go:76) for the
\* connection of g; max bounds the calls of one run.
StartOp(g, max) ==
    /\ Running
    /\ gor[g].pc = "idle"
    /\ nops < max
    /\ nops' = nops + 1
    /\ \E o \in {"Request", "Close"} :
          Step(g, [gor[g] EXCEPT !.pc = "NewNSSwitch", !.op = o])
    /\ UNCHANGED <<conn, curNS, ifNS, crashed>>

\* nsswitch.NewNSSwitch (ns_switch.go:33-43) as called at server.go:100-103:
\* the home handle is the namespace of the thread the goroutine runs on.
NewNSSwitch(g) ==
    /\ gor[g].pc = "NewNSSwitch"
    /\ \E t \in Threads, getOk \in BOOLEAN :
          /\ CanRunOn(g, t)
          /\ Step(g, IF getOk
                     THEN [gor[g] EXCEPT !.nsSwitch = curNS[t], !.home = curNS[t],
                                         !.pc = "GetFromPath"]
                     ELSE [gor[g] EXCEPT !.result = "AcqErr", !.pc = "returned"])
    /\ UNCHANGED <<conn, curNS, ifNS, crashed, nops>>

\* initNetNSSwitchAndHandle, server.go:104-115, after a failed GetFromPath:
\* the return statement sets the named results (nsSwitch = nil, handle = -1,
\* err), then the deferred function calls nsSwitch.Close() on them.
OpenFailed(f) ==
    NSSwitchClose([f EXCEPT !.nsSwitch = NilSwitch, !.tgt = NoHandle,
                            !.openFailed = TRUE, !.result = "AcqErr",
                            !.pc = "returned"])

\* initNetNSSwitchAndHandle, server.go:110-115, and its callers at 50-60 and
\* 81-91: with the handle open the first move begins.
OpenTarget(g) ==
    /\ gor[g].pc = "GetFromPath"
    /\ Running
    /\ LET h == GetFromPath(conn[g].url)
           f == IF h = NoHandle
                THEN OpenFailed(gor[g])
                ELSE [gor[g] EXCEPT !.tgt = h, !.pc = "mvSwitch",
                                    !.caller = IF gor[g].op = "Request" THEN "fwd" ELSE "back"]
       IN  /\ Step(g, f)
           /\ crashed' = (f.pc = "crashed")
    /\ UNCHANGED <<conn, curNS, ifNS, nops>>

\* moveInterfaceToAnotherNamespace, server.go:119-121: SwitchTo(fromNetNS) up
\* to netns.Get.
MoveSwitchLock(g) ==
    /\ gor[g].pc = "mvSwitch"
    /\ \E t \in Threads, getOk \in BOOLEAN :
          /\ CanRunOn(g, t)
          /\ LET f1 == SwitchToLock(gor[g], FromNS(gor[g]), t, curNS[t], getOk)
             IN  Step(g, IF getOk
                         THEN [f1 EXCEPT !.pc = "mvSwitchSet"]
                         ELSE SwitchFailed(f1))
    /\ UNCHANGED <<conn, curNS, ifNS, crashed, nops>>

\* moveInterfaceToAnotherNamespace, server.go:119-126: the rest of
\* SwitchTo(fromNetNS); on success the restore is deferred.
MoveSwitchSet(g) ==
    /\ gor[g].pc = "mvSwitchSet"
    /\ CanRunOn(g, gor[g].thr)
    /\ \E setOk \in BOOLEAN :
          LET f1 == SwitchToSet(gor[g], setOk)
          IN  /\ Step(g, IF f1.sw.ret = "nil"
                         THEN [f1 EXCEPT !.pc = "mvLookup", !.merr = "nil",
                                         !.link = "none", !.failedAt = "none",
                                         !.windows = @ + 1]
                         ELSE SwitchFailed(f1))
              /\ curNS' = AfterSet(f1)
    /\ UNCHANGED <<conn, ifNS, crashed, nops>>

\* A move that restores the namespace on its success path only.
LookupFailedNoRestore(f) == AfterMove([f EXCEPT !.failedAt = "lookup"], "LookupErr")

\* moveInterfaceToAnotherNamespace, server.go:128-131: LinkByName failed; the
\* move returns its error through the deferred restore of lines 122-126.
LookupFailed(f) ==
    [f EXCEPT !.merr = "LookupErr", !.failedAt = "lookup", !.pc = "mvRestore"]

\* netlink.LinkByName, server.go:128-131: the lookup sees the namespace of
\* the thread the goroutine runs on now.
MoveLookup(g) ==
    /\ gor[g].pc = "mvLookup"
    /\ \E t \in Threads :
          /\ CanRunOn(g, t)
          /\ LET name == conn[g].ifName
                 f    == [gor[g] EXCEPT !.thr = t, !.lookups = @ + 1]
             IN  Step(g, IF WhereIs(name) = curNS[t]
                         THEN [f EXCEPT !.link = name, !.pc = "mvSetNs"]
                         ELSE LookupFailed(f))
    /\ UNCHANGED <<conn, curNS, ifNS, crashed, nops>>

\* netlink.LinkSetNsFd, server.go:133-135: the request goes to the namespace
\* of the thread the goroutine runs on now; the kernel moves the link when it
\* finds it there.  Moving a link to the namespace it is in succeeds.
MoveSetNs(g) ==
    /\ gor[g].pc = "mvSetNs"
    /\ \E t \in Threads, osOk \in BOOLEAN :
          /\ CanRunOn(g, t)
          /\ LET f  == gor[g]
                 to == ToNS(f)
                 ok == osOk /\ ifNS[f.link] = curNS[t] /\ to # NoHandle
             IN  /\ Step(g, [f EXCEPT !.thr = t, !.setns = @ + 1,
                                      !.useAfterRel = @ \/ to = NoHandle,
                                      !.moved = IF ok /\ ifNS[f.link] # to THEN @ + 1 ELSE @,
                                      !.merr = IF ok THEN "nil" ELSE "RelocErr",
                                      !.failedAt = IF ok THEN "none" ELSE "setns",
                                      !.pc = "mvRestore"])
                 /\ ifNS' = IF ok THEN [ifNS EXCEPT ![f.link] = to] ELSE ifNS
    /\ UNCHANGED <<conn, curNS, crashed, nops>>

\* The deferred function of server.go:122-126: SwitchTo(nsSwitch.NetNSHandle)
\* up to netns.Get; a failure panics.
MoveRestoreLock(g) ==
    /\ gor[g].pc = "mvRestore"
    /\ \E t \in Threads, getOk \in BOOLEAN :
          /\ CanRunOn(g, t)
          /\ LET f0 == [gor[g] EXCEPT !.restores = @ + 1]
                 f1 == SwitchToLock(f0, f0.nsSwitch, t, curNS[t], getOk)
                 f2 == IF getOk THEN [f1 EXCEPT !.pc = "mvRestoreSet"]
                       ELSE RestoreFailed(f1)
             IN  /\ Step(g, f2)
                 /\ crashed' = (f2.pc = "crashed")
    /\ UNCHANGED <<conn, curNS, ifNS, nops>>

\* The deferred function of server.go:122-126: the rest of the restoring
\* SwitchTo, then the move returns its pending value to its caller.
MoveRestoreSet(g) ==
    /\ gor[g].pc = "mvRestoreSet"
    /\ CanRunOn(g, gor[g].thr)
    /\ \E setOk \in BOOLEAN :
          LET f1 == SwitchToSet(gor[g], setOk)
              f2 == IF f1.sw.ret = "nil" THEN AfterMove(f1, f1.merr)
                    ELSE RestoreFailed(f1)
          IN  /\ Step(g, f2)
              /\ curNS' = AfterSet(f1)
              /\ crashed' = (f2.pc = "crashed")
    /\ UNCHANGED <<conn, ifNS, nops>>

\* Request after a failed downstream call, server.go:66-67: the error is kept
\* and the compensating move (client namespace back to home) begins.
Compensate(f) ==
    [f EXCEPT !.dsFailed = TRUE, !.result = "DownstreamErr",
              !.pc = "mvSwitch", !.caller = "comp"]

\* next.Server(ctx).Request (server.go:65-73) and next.Server(ctx).Close
\* (server.go:96): the downstream element succeeds or fails.
Downstream(g) ==
    /\ gor[g].pc = "next"
    /\ Running
    /\ \E dsOk \in BOOLEAN :
          LET f == [gor[g] EXCEPT !.dsCalls = @ + 1]
          IN  Step(g, IF dsOk THEN Return(f, "nil")
                      ELSE IF f.op = "Request" THEN Compensate(f)
                      ELSE Return([f EXCEPT !.dsFailed = TRUE], "DownstreamErr"))
    /\ UNCHANGED <<conn, curNS, ifNS, crashed, nops>>

\* The caller of Request or Close has the result; the goroutine is free for
\* the next call on its connection.
Deliver(g) ==
    /\ gor[g].pc = "returned"
    /\ Step(g, [IdleFrame EXCEPT
                  !.prevOk = IF gor[g].result = "nil" THEN gor[g].op ELSE "none"])
    /\ UNCHANGED <<conn, curNS, ifNS, crashed, nops>>

\* The caller cancels the context of the running operation of g (the ctx of
\* server.go:44 and server.go:76).  moveInterfaceToAnotherNamespace takes no
\* context, and Request and Close only hand theirs to the downstream element.
Cancel(g) ==
    /\ Running
    /\ gor[g].pc \notin {"idle", "returned", "crashed"}
    /\ ~gor[g].cancelled
    /\ Step(g, [gor[g] EXCEPT !.cancelled = TRUE])
    /\ UNCHANGED <<conn, curNS, ifNS, crashed, nops>>

NextWithin(max) ==
    /\ UNCHANGED ipVars
    /\ \E g \in Goroutines :
        \/ StartOp(g, max)
        \/ Deliver(g)
        \/ NewNSSwitch(g)
        \/ OpenTarget(g)
        \/ MoveSwitchLock(g)
        \/ MoveSwitchSet(g)
        \/ MoveLookup(g)
        \/ MoveSetNs(g)
        \/ MoveRestoreLock(g)
        \/ MoveRestoreSet(g)
        \/ Downstream(g)

(***************************************************************************)
(* The ipaddress chain element.                                            *)
(***************************************************************************)

\* Goroutine g takes a step in the ipaddress element that leaves its frame as f.
IpStep(g, f) == ipf' = [ipf EXCEPT ![g] = f]

\* A return statement of ipaddressServer.Request or Close.
IpReturn(f, c, e) == [f EXCEPT !.pc = "returned", !.retConn = c, !.result = e]

\* A Request that returns the error of create without closing.
IpCreateFailedNoClose(f) == IpReturn([f EXCEPT !.createFailed = TRUE], "nil", "CreateErr")

\* ipaddressServer.Request after create failed: it calls its own
\* Close and keeps the error of create.
IpCreateFailed(f) == [f EXCEPT !.createFailed = TRUE, !.closes = @ + 1, !.pc = "ipClose"]

\* The chain calls ipaddressServer.Request or ipaddressServer.Close for the
\* connection of g.
IpStartOp(g) ==
    /\ ipf[g].pc = "idle"
    /\ ipn < MaxIpOps
    /\ ipn' = ipn + 1
    /\ \E o \in {"Request", "Close"} :
          IpStep(g, [ipf[g] EXCEPT !.op = o,
                                   !.pc = IF o = "Request" THEN "ipNext" ELSE "ipClose",
                                   !.closes = IF o = "Close" THEN 1 ELSE 0])

\* ipaddressServer.Request: the downstream Request comes first; its error is
\* returned with a nil connection.
IpRequestNext(g) ==
    /\ ipf[g].pc = "ipNext"
    /\ \E dsOk \in BOOLEAN :
          LET f == [ipf[g] EXCEPT !.dsReq = @ + 1] IN
          IpStep(g, IF dsOk
                    THEN [f EXCEPT !.established = TRUE, !.pc = "ipCreate"]
                    ELSE IpReturn([f EXCEPT !.dsFailed = TRUE], "nil", "DownstreamErr"))
    /\ UNCHANGED ipn

\* ipaddressServer.Request: create succeeds, and Request returns the
\* connection of the downstream element, or create fails.
IpCreate(g) ==
    /\ ipf[g].pc = "ipCreate"
    /\ \E createOk \in BOOLEAN :
          LET f == [ipf[g] EXCEPT !.creates = @ + 1] IN
          IpStep(g, IF createOk THEN IpReturn(f, "ds", "nil") ELSE IpCreateFailed(f))
    /\ UNCHANGED ipn

\* ipaddressServer.Close: the downstream Close.  Called by the chain, its
\* outcome is the result; called by Request after a failed create, its
\* outcome is dropped and Request returns the error of create.
IpClose(g) ==
    /\ ipf[g].pc = "ipClose"
    /\ \E dsOk \in BOOLEAN :
          LET f == [ipf[g] EXCEPT !.dsCloses = @ + 1, !.closeFailed = ~dsOk,
                                  !.established = IF dsOk THEN FALSE ELSE @] IN
          IpStep(g, IF f.op = "Request" THEN IpReturn(f, "nil", "CreateErr")
                    ELSE IpReturn(f, "none", IF dsOk THEN "nil" ELSE "DownstreamErr"))
    /\ UNCHANGED ipn

\* The caller has the result; the goroutine is free for the next call.
IpDeliver(g) ==
    /\ ipf[g].pc = "returned"
    /\ IpStep(g, [IpIdleFrame EXCEPT !.established = ipf[g].established])
    /\ UNCHANGED ipn

NextIp ==
    /\ UNCHANGED injectVars
    /\ \E g \in Goroutines :
        \/ IpStartOp(g)
        \/ IpRequestNext(g)
        \/ IpCreate(g)
        \/ IpClose(g)
        \/ IpDeliver(g)

\* The ipaddress element, serving valid connections.
InitIp == Init /\ \A g \in Goroutines : conn[g] = [url |-> GoodURL, ifName |-> OwnIf[g]]

SpecIp == InitIp /\ [][NextIp]_vars

Next == NextWithin(MaxOps)

Spec == Init /\ [][Next]_vars

NextRoundTrip == NextWithin(MaxRoundTripOps)

\* The same program, run for one more operation.
SpecRoundTrip == Init /\ [][NextRoundTrip]_vars

\* The program with callers that may cancel their contexts.
NextCancel ==
    \/ NextWithin(MaxCancelOps)
    \/ (\E g \in Goroutines : Cancel(g)) /\ UNCHANGED ipVars

SpecCancel == Init /\ [][NextCancel]_vars

(***************************************************************************)
(* Properties                                                              *)
(***************************************************************************)

\* The operation of g is over: it returned, or it panicked.
Over(g) == gor[g].pc \in {"returned", "crashed"}

\* The connection of g names a client namespace that resolves and an
\* interface that exists.
ValidConn(g) == conn[g].url = GoodURL /\ conn[g].ifName \in Interfaces

\* From the end of the first SwitchTo's netns.Get to the end of the restore.
InWindow(f) == f.pc \in {"mvSwitchSet", "mvLookup", "mvSetNs", "mvRestore", "mvRestoreSet"}

\* C1: round trip.  For a connection with a resolvable client namespace and
\* an existing interface, a Request that returns nil leaves the interface in
\* the client namespace, and a Close that returns nil right after such a
\* Request leaves it in the home namespace.
C1_RoundTrip ==
    \A g \in Goroutines :
        (ValidConn(g) /\ gor[g].pc = "returned" /\ gor[g].result = "nil") =>
            /\ gor[g].op = "Request" => ifNS[conn[g].ifName] = ClientNS
            /\ (gor[g].op = "Close" /\ gor[g].prevOk = "Request") =>
                   ifNS[conn[g].ifName] = HomeNS

\* C2: when no Request or Close is running and no restore has failed, every
\* OS thread is in the home namespace.
C2_ThreadsHome ==
    (~crashed /\ \A g \in Goroutines : gor[g].pc \in {"idle", "returned"}) =>
        \A t \in Threads : curNS[t] = HomeNS

\* C3: from the first SwitchTo to the end of the restore the goroutine holds
\* its thread lock, stays on one thread, and no other goroutine runs on that
\* thread.
C3_PinnedWindow ==
    [][\A g \in Goroutines :
          InWindow(gor'[g]) =>
              /\ gor'[g].locked
              /\ InWindow(gor[g]) => gor'[g].thr = gor[g].thr
              /\ \A h \in Goroutines \ {g} :
                    gor'[h] # gor[h] => gor'[h].thr # gor'[g].thr]_vars

\* C4: a Request whose downstream call failed has called the compensating
\* move before it returns, and when every OS call of that move succeeded the
\* interface is in the home namespace when the error is returned.
C4_Compensated ==
    \A g \in Goroutines :
        (gor[g].pc = "returned" /\ gor[g].op = "Request" /\ gor[g].dsFailed) =>
            /\ gor[g].switches >= 2
            /\ gor[g].failedAt = "none" => ifNS[conn[g].ifName] = HomeNS

\* C5 as stated: whenever the downstream Request failed, Request ends by
\* returning the downstream error, whatever the compensation did.
C5_AlwaysDownstreamErr ==
    \A g \in Goroutines :
        (Over(g) /\ gor[g].op = "Request" /\ gor[g].dsFailed) =>
            /\ gor[g].pc = "returned"
            /\ gor[g].result = "DownstreamErr"

\* C5 amended: whenever the downstream Request failed, a Request that returns
\* returns the downstream error, whether the compensation succeeded or failed
\* at its switch, lookup or reassignment; the one other ending is the panic
\* of a failed restore, on which Request returns nothing.
C5_DownstreamErrUnlessPanic ==
    \A g \in Goroutines :
        (Over(g) /\ gor[g].op = "Request" /\ gor[g].dsFailed) =>
            /\ gor[g].pc = "returned" => gor[g].result = "DownstreamErr"
            /\ gor[g].pc = "crashed" => (gor[g].restoreFailed /\ gor[g].result = "panic")

\* A Request returned after its compensating move failed.
C5_Witness ==
    \E g \in Goroutines :
        /\ gor[g].pc = "returned" /\ gor[g].op = "Request" /\ gor[g].dsFailed
        /\ gor[g].failedAt \in {"switch", "lookup", "setns"}

\* C6: a failed restore is never swallowed: the move does not return, the
\* operation has no ordinary result, and the process does not go on.
C6_RestoreFailureEscalates ==
    \A g \in Goroutines :
        gor[g].restoreFailed =>
            /\ gor[g].pc = "crashed"
            /\ gor[g].result = "panic"
            /\ crashed
            /\ ~ENABLED Next

\* The restore failed inside the compensating move of a Request.
C6_Witness ==
    \E g \in Goroutines :
        gor[g].restoreFailed /\ gor[g].op = "Request" /\ gor[g].dsFailed

\* C7: when opening the client namespace handle fails, the operation returns
\* an acquisition error as an ordinary error, no switch, no relocation and no
\* downstream call was made, and the home handle has been released.
C7_OpenFailureReturns ==
    \A g \in Goroutines :
        gor[g].openFailed =>
            /\ gor[g].pc = "returned"
            /\ gor[g].result = "AcqErr"
            /\ gor[g].switches = 0 /\ gor[g].lookups = 0 /\ gor[g].setns = 0
            /\ gor[g].dsCalls = 0
            /\ gor[g].homeRel = 1

\* Both handles of the operation of g were acquired.
Acquired(g) == gor[g].home # NoHandle /\ ~gor[g].openFailed /\ gor[g].pc # "GetFromPath"

\* C8: an operation that acquired its handles releases each of them exactly
\* once by the time it is over, on every exit path, releases none before
\* that, and never passes a released handle to SwitchTo or LinkSetNsFd.
C8_HandlesReleasedOnce ==
    \A g \in Goroutines :
        /\ ~gor[g].useAfterRel
        /\ Acquired(g) =>
              IF Over(g)
              THEN /\ gor[g].homeRel = 1 /\ gor[g].tgtRel = 1
                   /\ gor[g].nsSwitch = NoHandle /\ gor[g].tgt = NoHandle
              ELSE /\ gor[g].homeRel = 0 /\ gor[g].tgtRel = 0
                   /\ gor[g].nsSwitch = gor[g].home /\ gor[g].tgt = ClientNS

\* An operation ended by the panic of a failed restore, its handles released.
C8_Witness ==
    \E g \in Goroutines :
        /\ gor[g].pc = "crashed" /\ gor[g].restoreFailed
        /\ gor[g].homeRel = 1 /\ gor[g].tgtRel = 1

\* C9 as stated: a completed SwitchTo(target) issued no set call and returned
\* nil when target is the thread's namespace, and issued exactly one set call,
\* with target, when it is not.
C9_SetIffDifferent ==
    \A g \in Goroutines :
        LET c == gor[g].sw IN
        c.ret # "none" =>
            /\ c.before = c.target => (c.sets = 0 /\ c.ret = "nil")
            /\ c.before # c.target => (c.sets = 1 /\ c.setArg = c.target)

\* C9 amended: the statement holds of every SwitchTo whose netns.Get
\* succeeded; when netns.Get fails SwitchTo returns that error and issues no
\* set call.
C9_SetIffDifferentAfterGet ==
    \A g \in Goroutines :
        LET c == gor[g].sw IN
        c.ret # "none" =>
            IF c.getOk
            THEN /\ c.before = c.target => (c.sets = 0 /\ c.ret = "nil")
                 /\ c.before # c.target => (c.sets = 1 /\ c.setArg = c.target)
            ELSE c.sets = 0 /\ c.ret = "SwitchErr"

\* One SwitchTo found its thread in the requested namespace and returned
\* nil, another found it elsewhere and set it.
C9_Witness ==
    \E g, h \in Goroutines :
        /\ gor[g].sw.getOk /\ gor[g].sw.ret = "nil"
        /\ gor[g].sw.before = gor[g].sw.target /\ gor[g].sw.sets = 0
        /\ gor[h].sw.getOk /\ gor[h].sw.ret = "nil"
        /\ gor[h].sw.before # gor[h].sw.target /\ gor[h].sw.sets = 1

\* C10: a Request that names an interface absent from the home namespace
\* returns the lookup error with its thread in the home namespace, no
\* interface moved, no downstream call, and both handles released.
C10_MissingInterface ==
    \A g \in Goroutines :
        (gor[g].pc = "returned" /\ gor[g].op = "Request"
           /\ conn[g].ifName = MissingIf /\ gor[g].failedAt = "lookup") =>
            /\ gor[g].result = "LookupErr"
            /\ curNS[gor[g].thr] = HomeNS
            /\ gor[g].moved = 0
            /\ gor[g].dsCalls = 0
            /\ gor[g].homeRel = 1 /\ gor[g].tgtRel = 1

\* The error a move returns when it fails at step at.
MoveErr(at) ==
    CASE at = "switch" -> "SwitchErr"
      [] at = "lookup" -> "LookupErr"
      [] at = "setns"  -> "RelocErr"
      [] OTHER         -> "nil"

\* C11: a Close whose move failed at the switch, the lookup or the
\* reassignment returns that error without calling the downstream Close and
\* with both handles released; and the downstream Close is called only once
\* the interface has been moved from the client namespace back to home.
C11_CloseRelocation ==
    \A g \in Goroutines :
        gor[g].op = "Close" =>
            /\ (gor[g].pc = "returned" /\ gor[g].failedAt # "none") =>
                  /\ gor[g].result = MoveErr(gor[g].failedAt)
                  /\ gor[g].dsCalls = 0
                  /\ gor[g].homeRel = 1 /\ gor[g].tgtRel = 1
            /\ gor[g].pc = "next" => WhereIs(conn[g].ifName) = HomeNS

\* C12: an operation whose connection carries no client namespace reference
\* or no interface name fails with an acquisition error before any namespace
\* switch and before any step of a relocation.
C12_EmptyParameters ==
    \A g \in Goroutines :
        (gor[g].op # "none" /\ (conn[g].url = EmptyURL \/ conn[g].ifName = EmptyIf)) =>
            /\ gor[g].switches = 0 /\ gor[g].lookups = 0 /\ gor[g].setns = 0
            /\ gor[g].pc \in {"NewNSSwitch", "GetFromPath", "returned"}
            /\ gor[g].pc = "returned" => gor[g].result = "AcqErr"

\* C13: with operations of different connections running concurrently over
\* the shared OS threads, the home handle of every live switcher names the
\* forwarder's namespace, and it is the value NewNSSwitch captured.
C13_HomeHandle ==
    \A g \in Goroutines :
        gor[g].nsSwitch \notin {NilSwitch, NoHandle} =>
            /\ gor[g].nsSwitch = HomeNS
            /\ gor[g].nsSwitch = gor[g].home

\* C14: in every move, under any interleaving, LinkByName and LinkSetNsFd
\* execute on a thread whose namespace is fromNetNS, and the link that is
\* reassigned is the one with the given name in fromNetNS.
C14_InFromNS ==
    [][\A g \in Goroutines :
          /\ (gor[g].pc = "mvLookup" /\ gor'[g].pc # "mvLookup") =>
                curNS[gor'[g].thr] = FromNS(gor[g])
          /\ (gor[g].pc = "mvSetNs" /\ gor'[g].pc # "mvSetNs") =>
                /\ curNS[gor'[g].thr] = FromNS(gor[g])
                /\ ifNS[gor[g].link] = FromNS(gor[g])]_vars

\* C15: in Request the downstream Request is called only after the forward
\* move returned nil; when the forward move fails Request returns the move's
\* error, never calls the downstream element, and starts no compensating
\* move (a compensating move runs only after a failed downstream call).
C15_DownstreamAfterMove ==
    \A g \in Goroutines :
        LET f == gor[g] IN
        f.op = "Request" =>
            /\ f.pc = "next" =>
                  /\ f.caller = "fwd" /\ f.failedAt = "none" /\ f.merr = "nil"
                  /\ f.lookups = 1 /\ f.setns = 1 /\ f.sw.ret = "nil"
            /\ f.dsCalls > 0 => (f.lookups >= 1 /\ f.setns >= 1)
            /\ f.caller = "comp" => (f.dsFailed /\ f.dsCalls = 1)
            /\ (f.caller = "fwd" /\ f.failedAt # "none") =>
                  /\ f.dsCalls = 0
                  /\ f.pc \in {"mvRestore", "mvRestoreSet", "returned", "crashed"}
                  /\ f.pc = "returned" => f.result = MoveErr(f.failedAt)
                  /\ f.pc = "crashed" => f.restoreFailed

\* A Request returned the error of a failed reassignment of its forward move.
C15_Witness ==
    \E g \in Goroutines :
        /\ gor[g].pc = "returned" /\ gor[g].op = "Request"
        /\ gor[g].caller = "fwd" /\ gor[g].failedAt = "setns"
        /\ gor[g].result = "RelocErr" /\ gor[g].dsCalls = 0

\* C16: when the first SwitchTo of a move fails, the move returns the switch
\* error and does nothing more: no lookup, no reassignment, no restoring
\* SwitchTo, and no interface changes its namespace.
C16_SwitchFailure ==
    [][\A g \in Goroutines :
          (gor[g].pc \in {"mvSwitch", "mvSwitchSet"} /\ gor'[g] # gor[g]
             /\ gor'[g].sw.ret = "SwitchErr") =>
              /\ gor'[g].pc = "returned"
              /\ gor'[g].failedAt = "switch"
              /\ gor'[g].result = IF gor[g].caller = "comp" THEN "DownstreamErr"
                                  ELSE "SwitchErr"
              /\ gor'[g].lookups = gor[g].lookups
              /\ gor'[g].setns = gor[g].setns
              /\ gor'[g].switches = gor[g].switches
                                      + (IF gor[g].pc = "mvSwitch" THEN 1 ELSE 0)
              /\ ifNS' = ifNS
              /\ curNS' = curNS]_vars

\* A Close returned the error of its first SwitchTo, whose netns.Set failed.
C16_Witness ==
    \E g \in Goroutines :
        /\ gor[g].pc = "returned" /\ gor[g].op = "Close"
        /\ gor[g].failedAt = "switch" /\ gor[g].result = "SwitchErr"
        /\ gor[g].sw.sets = 1 /\ gor[g].switches = 1 /\ gor[g].lookups = 0

\* C17: once the first SwitchTo of a move has succeeded, the restoring
\* SwitchTo is attempted before the enclosing Request or Close is over,
\* whatever LinkByName and LinkSetNsFd did and whether or not the context was
\* cancelled: between the two the goroutine is at the lookup, the
\* reassignment or the restore, its next step is enabled whenever the process
\* runs, and no other exit exists.
C17_RestoreAttempted ==
    \A g \in Goroutines :
        LET f == gor[g] IN
        /\ f.restores <= f.windows /\ f.windows <= f.restores + 1
        /\ Over(g) => f.restores = f.windows
        /\ f.windows > f.restores =>
              /\ f.pc \in {"mvLookup", "mvSetNs", "mvRestore"}
              /\ Running =>
                    ENABLED (MoveLookup(g) \/ MoveSetNs(g) \/ MoveRestoreLock(g))

\* A Request whose context was cancelled inside the window of its forward
\* move, and whose lookup failed, is over with the restore attempted.
C17_Witness ==
    \E g \in Goroutines :
        /\ gor[g].pc = "returned" /\ gor[g].cancelled
        /\ gor[g].failedAt = "lookup" /\ gor[g].result = "LookupErr"
        /\ gor[g].windows = 1 /\ gor[g].restores = 1

\* C18: ipaddressServer.Request calls the downstream Request first; when
\* that fails it returns the downstream error with a nil connection and never
\* runs create; when create fails it calls Close exactly once, which calls
\* the downstream Close, and returns the error of create with a nil
\* connection whatever Close returned; when both succeed it returns the
\* connection of the downstream element.
C18_IpAddressRequest ==
    \A g \in Goroutines :
        LET f == ipf[g] IN
        f.op = "Request" =>
            /\ (f.pc = "ipCreate" \/ f.creates > 0) => (f.dsReq = 1 /\ ~f.dsFailed)
            /\ f.creates <= 1 /\ f.dsReq <= 1
            /\ f.dsFailed =>
                  /\ f.pc = "returned"
                  /\ f.result = "DownstreamErr" /\ f.retConn = "nil"
                  /\ f.creates = 0 /\ f.closes = 0 /\ f.dsCloses = 0
            /\ f.createFailed =>
                  /\ f.closes = 1
                  /\ f.pc \in {"ipClose", "returned"}
                  /\ f.pc = "returned" =>
                        /\ f.dsCloses = 1
                        /\ f.result = "CreateErr" /\ f.retConn = "nil"
            /\ (f.pc = "returned" /\ ~f.dsFailed /\ ~f.createFailed) =>
                  /\ f.result = "nil" /\ f.retConn = "ds"
                  /\ f.dsReq = 1 /\ f.creates = 1
                  /\ f.closes = 0 /\ f.dsCloses = 0

\* A Request returned the error of create after its Close failed too.
C18_Witness ==
    \E g \in Goroutines :
        /\ ipf[g].pc = "returned" /\ ipf[g].op = "Request"
        /\ ipf[g].createFailed /\ ipf[g].closeFailed
        /\ ipf[g].result = "CreateErr" /\ ipf[g].dsCloses = 1

====
